---- MODULE Spec2Model ----
(***************************************************************************)
(* PetFeeder: the command queue between the web backend and the polling    *)
(* device, and the telemetry ingest routes.                                *)
(*                                                                         *)
(* The repository holds two parallel server programs:                      *)
(*   app.py  - SQLAlchemy models (models.py), one implicit device;         *)
(*             store is PostgreSQL (DATABASE_URL) or the SQLite fallback.  *)
(*   main.py - raw sqlite3, commands keyed by device_id.                   *)
(* One behaviour of the model is one deployment: `program` says which      *)
(* program runs, `backend` which store it runs on.                         *)
(*                                                                         *)
(* Spec is the command queue with one polling consumer, SpecConc the queue  *)
(* with two, SpecTelemetry the queue together with the telemetry posts.     *)
(* A get_command request is three steps (SELECT, DELETE, commit+return);    *)
(* the other requests are one step each.                                    *)
(*                                                                         *)
(* Every JSON / form value is modelled as a string.  Timestamps            *)
(* (created_at, timestamp columns) are not modelled: no handler reads or   *)
(* orders the command queue by them.                                       *)
(***************************************************************************)
EXTENDS Integers, Sequences, FiniteSets, TLC

\* ---------------------------------------------------------------- bounds
MaxEnqueue == 2      \* successful enqueues in one behaviour
MaxPolls   == 2      \* get_command polls begun in one behaviour
MaxLog     == 1      \* telemetry rows stored in one behaviour

\* ---------------------------------------------------------------- inputs
Missing == "<missing>"      \* key absent from the form / JSON body
Null    == "NULL"           \* SQL NULL / Python None

DeviceIds    == {"A", "B"}
CommandTexts == {"feed:30", "camera_on"}
Portions     == {"30", "abc"}          \* form values of 'portion'
Amounts      == {"12.5"}
Results      == {"success"}
Levels       == {"80"}
Weights      == {"40"}

Pollers == {1, 2}

VARIABLES
    program,     \* "app" (app.py + models.py) or "main" (main.py)
    backend,     \* "postgresql" or "sqlite"
    commands,    \* the command table: set of rows
    seq,         \* PostgreSQL sequence behind Command.id (last value given)
    feed_log,    \* feed_log table, in insertion order
    sensor_data, \* sensor_data table, in insertion order
    pc,          \* pc[p]: where poller p's get_command request stands
    sel,         \* sel[p]: the row poller p's SELECT returned
    dev,         \* dev[p]: the device_id of poller p's request
    txn,         \* txn[p]: rows deleted by p's open (uncommitted) transaction
    writer,      \* SQLite write lock holder (0 = free)
    req,         \* the route of the request the last step served
    resp,        \* the response produced by the last step
    fault,       \* store fault met by the last step ("none" if the store worked)
    hist         \* history: successful enqueues and answered polls, in order

vars == <<program, backend, commands, seq, feed_log, sensor_data,
          pc, sel, dev, txn, writer, req, resp, fault, hist>>

tables == <<commands, seq, feed_log, sensor_data>>

\* ---------------------------------------------------------------- helpers
\* A command row.  n is a history field: the ordinal of the enqueue that
\* created the row (ids can be reused, n cannot).
Row(i, d, c, k) == [id |-> i, device_id |-> d, command |-> c, n |-> k]

NoRow == Row(0, Null, "none", 0)

Response(s, b) == [status |-> s, body |-> b]

Event(o, p, d, t, s, k, i) ==
    [op |-> o, p |-> p, device_id |-> d, text |-> t, status |-> s, n |-> k, id |-> i]

Ids(tbl) == {r.id : r \in tbl}

Max(S) == CHOOSE x \in S : \A y \in S : y <= x

MinRow(S) == CHOOSE r \in S : \A q \in S : r.id <= q.id

Enqueues == SelectSeq(hist, LAMBDA e : e.op = "enq")

Polls == SelectSeq(hist, LAMBDA e : e.op = "poll")

\* polls begun: answered ones plus those in flight
PollsBegun == Len(Polls) + Cardinality({p \in Pollers : pc[p] # "idle"})

\* An uncaught exception in a view: Flask answers 500.
Error500 == Response(500, "Internal Server Error")

\* werkzeug BadRequestKeyError (request.form[...] on an absent key): 400.
BadRequest400 == Response(400, "Bad Request")

\* ---------------------------------------------------------------- ids
\* PostgreSQL: SERIAL column, nextval of the sequence.
PostgresNextId == seq + 1

\* SQLite: INTEGER PRIMARY KEY without AUTOINCREMENT is the rowid,
\* one more than the largest rowid now in the table.
SqliteNextId(tbl) == Max(Ids(tbl) \cup {0}) + 1

NextId(tbl) == IF backend = "postgresql" THEN PostgresNextId ELSE SqliteNextId(tbl)

\* INSERT of one command row (autoincrement id) and commit.
Insert(d, c) ==
    /\ commands' = commands \cup {Row(NextId(commands), d, c, Len(Enqueues) + 1)}
    /\ seq' = IF backend = "postgresql" THEN seq + 1 ELSE seq
    /\ hist' = Append(hist, Event("enq", 0, d, c, 200, Len(Enqueues) + 1, NextId(commands)))

\* ---------------------------------------------------------------- Init
Init ==
    /\ program \in {"app", "main"}
    /\ backend \in {"postgresql", "sqlite"}
    /\ program = "main" => backend = "sqlite"
    /\ commands = {}
    /\ seq = 0
    /\ feed_log = <<>>
    /\ sensor_data = <<>>
    /\ pc = [p \in Pollers |-> "idle"]
    /\ sel = [p \in Pollers |-> NoRow]
    /\ dev = [p \in Pollers |-> Null]
    /\ txn = [p \in Pollers |-> {}]
    /\ writer = 0
    /\ req = "start"
    /\ resp = Response(0, "")
    /\ fault = "none"
    /\ hist = <<>>

\* ---------------------------------------------------------------- producers
\* app.py  POST /feed_now
feed_command(portion) == "feed:" \o portion

feed_now(portion) ==
    /\ program = "app"
    /\ req' = "feed_now"
    /\ fault' = "none"
    /\ IF portion = Missing
       THEN /\ resp' = BadRequest400
            /\ UNCHANGED <<commands, seq, hist>>
       ELSE /\ Len(Enqueues) < MaxEnqueue
            /\ Insert(Null, feed_command(portion))
            /\ resp' = Response(302, "index")
    /\ UNCHANGED <<program, backend, feed_log, sensor_data, pc, sel, dev, txn, writer>>

\* main.py  POST /api/send_command
send_command(device_id, command) ==
    /\ program = "main"
    /\ req' = "send_command"
    /\ fault' = "none"
    /\ IF device_id = Missing \/ command = Missing
       THEN /\ resp' = Error500                   \* KeyError on data[...]
            /\ UNCHANGED <<commands, seq, hist>>
       ELSE /\ writer = 0                         \* SQLite: one writer at a time
            /\ Len(Enqueues) < MaxEnqueue
            /\ Insert(device_id, command)
            /\ resp' = Response(200, "ok")
    /\ UNCHANGED <<program, backend, feed_log, sensor_data, pc, sel, dev, txn, writer>>

\* ---------------------------------------------------------------- consumer, app.py
\* Command.query.order_by(Command.id.asc()).first()
app_first(tbl) == IF tbl = {} THEN NoRow ELSE MinRow(tbl)

\* the DELETE the session flushes for the object marked by db.session.delete(cmd):
\* DELETE FROM command WHERE id = <cmd.id>.  Matching no row is a warning only.
app_delete_flush(tbl, cmd) == {r \in tbl : r.id = cmd.id}

app_none_response_404 == Response(404, "none")

\* jsonify({'command': 'none'})
app_none_response == Response(200, "none")

\* jsonify({'command': command_text})
app_command_response(cmd) == Response(200, cmd.command)

\* one poll answered: the response and its record in the history
Answer(p, d, r, k) ==
    /\ resp' = r
    /\ hist' = Append(hist, Event("poll", p, d, r.body, r.status, k, 0))

\* one poll ended by an exception: the client gets no answer to act on
Fail ==
    /\ resp' = Error500
    /\ UNCHANGED hist

\* GET /api/get_command, line 149: the SELECT
app_get_command_select(p) ==
    /\ program = "app"
    /\ req' = "get_command"
    /\ pc[p] = "idle"
    /\ PollsBegun < MaxPolls
    /\ \/ /\ fault' = "select"                      \* the store fails: exception
          /\ Fail
          /\ UNCHANGED <<pc, sel, dev>>
       \/ /\ fault' = "none"
          /\ IF app_first(commands) = NoRow
             THEN /\ Answer(p, Null, app_none_response, 0)
                  /\ UNCHANGED <<pc, sel, dev>>
             ELSE /\ pc' = [pc EXCEPT ![p] = "selected"]
                  /\ sel' = [sel EXCEPT ![p] = app_first(commands)]
                  /\ dev' = [dev EXCEPT ![p] = Null]
                  /\ UNCHANGED <<resp, hist>>
    /\ UNCHANGED <<program, backend, tables, txn, writer>>

\* lines 151-152: command_text = cmd.command; db.session.delete(cmd).
\* Marks the object in the session; no statement reaches the store yet.
app_get_command_delete(p) ==
    /\ program = "app"
    /\ pc[p] = "selected"
    /\ pc' = [pc EXCEPT ![p] = "deleted"]
    /\ UNCHANGED <<program, backend, tables, sel, dev, txn, writer, req, resp, fault, hist>>

\* lines 153-154: db.session.commit() flushes the DELETE and commits, then
\* the view returns command_text.  A failure raises before the return and
\* the transaction is rolled back.
app_get_command_commit(p) ==
    /\ program = "app"
    /\ req' = "get_command"
    /\ pc[p] = "deleted"
    /\ \/ /\ fault' = "commit"
          /\ Fail
          /\ UNCHANGED commands
       \/ /\ fault' = "none"
          /\ commands' = commands \ app_delete_flush(commands, sel[p])
          /\ Answer(p, Null, app_command_response(sel[p]), sel[p].n)
    /\ pc' = [pc EXCEPT ![p] = "idle"]
    /\ UNCHANGED <<program, backend, seq, feed_log, sensor_data, sel, dev, txn, writer>>

\* ---------------------------------------------------------------- consumer, main.py
main_fetchone_any(tbl, d) == IF tbl = {} THEN NoRow ELSE MinRow(tbl)

\* SELECT command FROM commands WHERE device_id=? LIMIT 1, .fetchone():
\* SQLite walks the table in rowid order, so the first match has the least rowid.
main_fetchone(tbl, d) ==
    LET S == {r \in tbl : r.device_id = d}
    IN  IF S = {} THEN NoRow ELSE MinRow(S)

main_delete_where_command(tbl, d) == {r \in tbl : r.command = d}

\* DELETE FROM commands WHERE device_id=?  : the rows it removes
main_delete_where(tbl, d) == {r \in tbl : r.device_id = d}

\* jsonify({"command": "none"})
main_none_response == Response(200, "none")

\* jsonify({"command": cmd['command']})
main_command_response(cmd) == Response(200, cmd.command)

\* GET /api/command/<device_id>, line 23: the SELECT
main_get_command_select(p, d) ==
    /\ program = "main"
    /\ req' = "get_command"
    /\ pc[p] = "idle"
    /\ PollsBegun < MaxPolls
    /\ \/ /\ fault' = "select"
          /\ Fail
          /\ UNCHANGED <<pc, sel, dev>>
       \/ /\ fault' = "none"
          /\ IF main_fetchone(commands, d) = NoRow
             THEN /\ Answer(p, d, main_none_response, 0)
                  /\ UNCHANGED <<pc, sel, dev>>
             ELSE /\ pc' = [pc EXCEPT ![p] = "selected"]
                  /\ sel' = [sel EXCEPT ![p] = main_fetchone(commands, d)]
                  /\ dev' = [dev EXCEPT ![p] = d]
                  /\ UNCHANGED <<resp, hist>>
    /\ UNCHANGED <<program, backend, tables, txn, writer>>

\* line 25: the DELETE, inside an implicit transaction that holds the
\* SQLite write lock until commit; other writers wait for it.
main_get_command_delete(p) ==
    /\ program = "main"
    /\ req' = "get_command"
    /\ pc[p] = "selected"
    /\ writer = 0
    /\ \/ /\ fault' = "delete"
          /\ Fail
          /\ pc' = [pc EXCEPT ![p] = "idle"]
          /\ UNCHANGED <<txn, writer>>
       \/ /\ fault' = "none"
          /\ txn' = [txn EXCEPT ![p] = main_delete_where(commands, dev[p])]
          /\ writer' = p
          /\ pc' = [pc EXCEPT ![p] = "deleted"]
          /\ UNCHANGED <<resp, hist>>
    /\ UNCHANGED <<program, backend, tables, sel, dev>>

\* lines 26-27: db.commit(), then the view returns the selected text.
\* A failed commit raises; the open transaction is rolled back.
main_get_command_commit(p) ==
    /\ program = "main"
    /\ req' = "get_command"
    /\ pc[p] = "deleted"
    /\ writer = p
    /\ \/ /\ fault' = "commit"
          /\ Fail
          /\ UNCHANGED commands
       \/ /\ fault' = "none"
          /\ commands' = commands \ txn[p]
          /\ Answer(p, dev[p], main_command_response(sel[p]), sel[p].n)
    /\ txn' = [txn EXCEPT ![p] = {}]
    /\ writer' = 0
    /\ pc' = [pc EXCEPT ![p] = "idle"]
    /\ UNCHANGED <<program, backend, seq, feed_log, sensor_data, sel, dev>>

\* ---------------------------------------------------------------- telemetry
\* dict.get(key): None when the key is absent
Get(v) == IF v = Missing THEN Null ELSE v

\* app.py  POST /api/upload_log
upload_log(amount, result) ==
    /\ program = "app"
    /\ req' = "upload_log"
    /\ Len(feed_log) + Len(sensor_data) < MaxLog
    /\ fault' = "none"
    /\ feed_log' = Append(feed_log, [amount |-> Get(amount), result |-> Get(result)])
    /\ resp' = Response(200, "log_saved")
    /\ UNCHANGED <<program, backend, commands, seq, sensor_data,
                   pc, sel, dev, txn, writer, hist>>

\* app.py  POST /api/update_level
update_level(level) ==
    /\ program = "app"
    /\ req' = "update_level"
    /\ Len(feed_log) + Len(sensor_data) < MaxLog
    /\ fault' = "none"
    /\ sensor_data' = Append(sensor_data, [level |-> Get(level)])
    /\ resp' = Response(200, "level_updated")
    /\ UNCHANGED <<program, backend, commands, seq, feed_log,
                   pc, sel, dev, txn, writer, hist>>

\* main.py  POST /api/update : data['device_id'], data['weight'], data['level']
update_status(device_id, weight, level) ==
    /\ program = "main"
    /\ req' = "update_status"
    /\ fault' = "none"
    /\ IF Missing \in {device_id, weight, level}
       THEN /\ resp' = Error500                    \* KeyError on data[...]
            /\ UNCHANGED feed_log
       ELSE /\ writer = 0
            /\ Len(feed_log) + Len(sensor_data) < MaxLog
            /\ feed_log' = Append(feed_log,
                   [device_id |-> device_id, weight |-> weight, level |-> level])
            /\ resp' = Response(200, "received")
    /\ UNCHANGED <<program, backend, commands, seq, sensor_data,
                   pc, sel, dev, txn, writer, hist>>

\* ---------------------------------------------------------------- specifications
Enqueue ==
    \/ \E portion \in Portions \cup {Missing} : feed_now(portion)
    \/ \E d \in DeviceIds \cup {Missing}, c \in CommandTexts \cup {Missing} :
           send_command(d, c)

Telemetry ==
    \/ \E a \in Amounts \cup {Missing}, r \in Results \cup {Missing} : upload_log(a, r)
    \/ \E l \in Levels \cup {Missing} : update_level(l)
    \/ \E d \in DeviceIds \cup {Missing}, w \in Weights \cup {Missing},
          l \in Levels \cup {Missing} : update_status(d, w, l)

Poll(p) ==
    \/ app_get_command_select(p)
    \/ app_get_command_delete(p)
    \/ app_get_command_commit(p)
    \/ \E d \in DeviceIds : main_get_command_select(p, d)
    \/ main_get_command_delete(p)
    \/ main_get_command_commit(p)

\* the command queue with one polling consumer, whose steps interleave with
\* the producers' requests
Next == Enqueue \/ Poll(1)

Spec == Init /\ [][Next]_vars

\* the same with the device's telemetry posts
NextTelemetry == Enqueue \/ Poll(1) \/ Telemetry

SpecTelemetry == Init /\ [][NextTelemetry]_vars

\* two polling consumers whose steps interleave
NextConc == Enqueue \/ \E p \in Pollers : Poll(p)

SpecConc == Init /\ [][NextConc]_vars

\* ================================================================ properties
Last(h) == h[Len(h)]

\* a step that answers a poll / that inserts a command
PollAnswered == Len(hist') = Len(hist) + 1 /\ Last(hist').op = "poll"

Enqueued == Len(hist') = Len(hist) + 1 /\ Last(hist').op = "enq"

\* the pending commands a poll for device d looks at
Scope(tbl, d) == IF program = "app" THEN tbl ELSE {r \in tbl : r.device_id = d}

Pending(k) == \E r \in commands : r.n = k

Deliveries(k) == Cardinality({i \in 1..Len(Polls) : Polls[i].n = k})

\* C1: with one polling consumer, every command ever enqueued is either still
\* pending and never returned, or gone from the store and returned by exactly
\* one poll.
C1_DeliveredExactlyOnce ==
    \A k \in 1..Len(Enqueues) :
        \/ Pending(k) /\ Deliveries(k) = 0
        \/ ~Pending(k) /\ Deliveries(k) = 1

\* C2: when the history is N enqueues for one scope followed by polls of that
\* scope, the i-th poll returns the i-th enqueued text and any poll after the
\* N-th returns "none".
C2_FifoOrder ==
    LET N == Len(Enqueues)
    IN  ( /\ \A i \in 1..Len(hist) : hist[i].op = "enq" <=> i <= N
          /\ \A i, j \in 1..Len(hist) : hist[i].device_id = hist[j].device_id )
        => \A i \in 1..Len(Polls) :
               Polls[i].text = IF i <= N THEN Enqueues[i].text ELSE "none"

\* C3: two polls by different pollers against the one command ever enqueued
\* for their scope: exactly one gets the text, the other gets "none", and the
\* store ends empty.
C3_OneOfTwoPollers ==
    ( /\ Len(Enqueues) = 1
      /\ Len(Polls) = 2
      /\ hist[1].op = "enq"
      /\ Polls[1].p # Polls[2].p
      /\ Polls[1].device_id = hist[1].device_id
      /\ Polls[2].device_id = hist[1].device_id
      /\ \A p \in Pollers : pc[p] = "idle" )
    => /\ commands = {}
       /\ \/ Polls[1].text = hist[1].text /\ Polls[2].text = "none"
          \/ Polls[1].text = "none" /\ Polls[2].text = hist[1].text

\* C4: a poll begun when nothing is pending for its scope, the store working,
\* is answered 200 "none" in that step and changes no table.
C4_EmptyPollStep ==
    ( /\ PollAnswered
      /\ pc[Last(hist').p] = "idle"
      /\ Scope(commands, Last(hist').device_id) = {} )
    => /\ resp' = Response(200, "none")
       /\ Last(hist').status = 200
       /\ Last(hist').text = "none"
       /\ UNCHANGED tables
       /\ UNCHANGED <<pc, sel, txn>>

C4_EmptyPollReturnsNone == [][C4_EmptyPollStep]_vars

C4_Witness ==
    /\ hist # <<>>
    /\ Last(hist).op = "poll"
    /\ Last(hist).text = "none"
    /\ resp = Response(200, "none")
    /\ commands # {}
    /\ Scope(commands, Last(hist).device_id) = {}

\* C5: a poll that selected a row ends either answered with that row's text
\* and the row deleted, or failed with the row still in the store; a poll
\* whose SELECT failed changes nothing and delivers nothing.
C5_PollEndStep ==
    /\ \A p \in Pollers :
         (pc[p] # "idle" /\ pc'[p] = "idle") =>
             \/ /\ fault' = "none"
                /\ resp' = Response(200, sel[p].command)
                /\ sel[p] \notin commands'
                /\ PollAnswered
                /\ Last(hist').n = sel[p].n
             \/ /\ fault' \in {"delete", "commit"}
                /\ resp'.status = 500
                /\ sel[p] \in commands'
                /\ UNCHANGED <<commands, hist>>
    /\ fault' = "select" => resp'.status = 500 /\ UNCHANGED <<commands, hist, pc>>

C5_FailureAtomic == [][C5_PollEndStep]_vars

C5_Witness ==
    /\ fault = "commit"
    /\ resp = Error500
    /\ pc[1] = "idle"
    /\ sel[1] \in commands
    /\ Deliveries(sel[1].n) = 0

\* C6: feed_now enqueues "feed:p" exactly when the portion p is a positive
\* number; otherwise it answers 400 and leaves the command store unchanged.
WellFormedPortions == {"30"}

C6_FeedNowStep ==
    \A portion \in Portions \cup {Missing} :
        feed_now(portion) =>
            IF portion \in WellFormedPortions
            THEN /\ Enqueued
                 /\ Last(hist').text = "feed:" \o portion
                 /\ Cardinality(commands') = Cardinality(commands) + 1
            ELSE /\ resp'.status = 400
                 /\ UNCHANGED commands

C6_FeedNowValidates == [][C6_FeedNowStep]_vars

\* C7: send_command with device_id or command missing answers 400 and inserts
\* nothing; with both present it inserts one row holding them.
C7_SendCommandStep ==
    \A d \in DeviceIds \cup {Missing}, c \in CommandTexts \cup {Missing} :
        send_command(d, c) =>
            IF d = Missing \/ c = Missing
            THEN /\ resp'.status = 400
                 /\ UNCHANGED commands
            ELSE /\ Enqueued
                 /\ \E r \in commands' \ commands :
                        /\ r.device_id = d
                        /\ r.command = c
                        /\ commands' = commands \cup {r}

C7_SendCommandValidates == [][C7_SendCommandStep]_vars

\* C8: every telemetry call, whatever fields it has, appends one row to its
\* own table with absent fields NULL, acknowledges, and leaves the pending
\* commands as they were.
C8_TelemetryStep ==
    /\ \A a \in Amounts \cup {Missing}, r \in Results \cup {Missing} :
         upload_log(a, r) =>
             /\ feed_log' = Append(feed_log, [amount |-> Get(a), result |-> Get(r)])
             /\ resp'.status = 200
             /\ UNCHANGED <<commands, sensor_data>>
    /\ \A l \in Levels \cup {Missing} :
         update_level(l) =>
             /\ sensor_data' = Append(sensor_data, [level |-> Get(l)])
             /\ resp'.status = 200
             /\ UNCHANGED <<commands, feed_log>>
    /\ \A d \in DeviceIds \cup {Missing}, w \in Weights \cup {Missing},
          l \in Levels \cup {Missing} :
         update_status(d, w, l) =>
             /\ feed_log' = Append(feed_log,
                    [device_id |-> Get(d), weight |-> Get(w), level |-> Get(l)])
             /\ resp'.status = 200
             /\ UNCHANGED <<commands, sensor_data>>

C8_TelemetryAppends == [][C8_TelemetryStep]_vars

\* C9: an enqueue adds exactly one row, keeps every pending row, and the new
\* identifier exceeds that of every command enqueued before, deleted or not.
C9_EnqueueStep ==
    Enqueued =>
        /\ \E r \in commands' \ commands :
              /\ commands' = commands \cup {r}
              /\ r.id = Last(hist').id
        /\ \A i \in 1..Len(Enqueues) : Enqueues[i].id < Last(hist').id

C9_IdsStrictlyIncrease == [][C9_EnqueueStep]_vars

\* C10: in the device-keyed program a poll answers only with a command that
\* was enqueued for its own device, a step removes only rows of the device
\* whose poll commits in it, and an enqueue for one device leaves the row the
\* next poll of any other device would select unchanged.
C10_IsolationStep ==
    program = "main" =>
        /\ PollAnswered /\ Last(hist').n # 0 =>
               Enqueues[Last(hist').n].device_id = Last(hist').device_id
        /\ commands \ commands' # {} =>
               \E p \in Pollers :
                   /\ pc[p] = "deleted" /\ pc'[p] = "idle"
                   /\ \A r \in commands \ commands' : r.device_id = dev[p]
        /\ Enqueued =>
               \A d \in DeviceIds \ {Last(hist').device_id} :
                   main_fetchone(commands', d) = main_fetchone(commands, d)

C10_DeviceIsolation == [][C10_IsolationStep]_vars

C10_Witness ==
    /\ program = "main"
    /\ hist # <<>>
    /\ Last(hist).op = "poll"
    /\ Last(hist).device_id = "A"
    /\ Last(hist).n # 0
    /\ \E r \in commands : r.device_id = "B"

====
